---------------------------- MODULE Spec2Model ----------------------------
(***************************************************************************)
(* SQL-Chatbot (src/app.py): a Streamlit script that is re-run from the    *)
(* top on every widget interaction.  The state that survives a run is      *)
(* st.session_state and the values of the sidebar widgets; one action of   *)
(* this model is one interaction followed by the whole script run it       *)
(* triggers.  Texts are sequences of one-character strings, so that the    *)
(* regular expressions and the str methods of the script are computed      *)
(* character by character.  An optional value (Python's None) is a         *)
(* sequence of length 0 or 1.                                              *)
(*                                                                         *)
(* The model covers the runs in which configure_db, once its credential    *)
(* check passes, returns a connection object.                              *)
(***************************************************************************)
EXTENDS Integers, Sequences, FiniteSets, TLC

VARIABLES
    db_uri,         \* line 23-30: LOCALDB or MYSQL, from the sidebar radio
    mysql,          \* lines 25-28: the four MySQL text inputs
    api_key,        \* line 32: the Groq API key text input
    session_state,  \* st.session_state: a record with or without "messages"
    widgets,        \* the main-flow widgets the last run rendered
    out             \* what the last script run did (observation record)

vars == <<db_uri, mysql, api_key, session_state, widgets, out>>

(***************************************************************************)
(* Bounds of the model.                                                    *)
(***************************************************************************)
\* most chunks in the statement part of an enumerated LLM response
MaxChunks == 3
\* a user turn is taken only while the transcript has room for its two messages
MaxMsgs == 5

(***************************************************************************)
(* Characters and str helpers.                                             *)
(***************************************************************************)
Upper == <<"A","B","C","D","E","F","G","H","I","J","K","L","M",
           "N","O","P","Q","R","S","T","U","V","W","X","Y","Z">>
Lower == <<"a","b","c","d","e","f","g","h","i","j","k","l","m",
           "n","o","p","q","r","s","t","u","v","w","x","y","z">>

\* re.IGNORECASE: the characters a pattern character matches, itself and, for a
\* letter, its other case
either_case(c) ==
    {c} \cup {Lower[i] : i \in {j \in 1..26 : Upper[j] = c}}
        \cup {Upper[i] : i \in {j \in 1..26 : Lower[j] = c}}

\* a literal pattern compiled with re.IGNORECASE
ignore_case(pat) == [k \in 1..Len(pat) |-> either_case(pat[k])]

\* the characters str.strip() and the regex class \s remove
Whitespace == {" ", "\n", "\t", "\r"}

SetMin(S) == CHOOSE x \in S : \A y \in S : x <= y
SetMax(S) == CHOOSE x \in S : \A y \in S : x >= y

\* pat occurs in s at index i
MatchAt(s, i, pat) ==
    /\ i >= 1
    /\ i + Len(pat) - 1 <= Len(s)
    /\ \A k \in 1..Len(pat) : s[i + k - 1] = pat[k]

\* the compiled pattern cpat (a set of characters per position) matches s at i
MatchAtI(s, i, cpat) ==
    /\ i >= 1
    /\ i + Len(cpat) - 1 <= Len(s)
    /\ \A k \in 1..Len(cpat) : s[i + k - 1] \in cpat[k]

\* str.startswith
startswith(s, pat) == MatchAt(s, 1, pat)

\* str.endswith
endswith(s, pat) == MatchAt(s, Len(s) - Len(pat) + 1, pat)

\* str.strip(chars): leading and trailing characters of the set removed
strip_chars(s, chars) ==
    LET keep == {i \in 1..Len(s) : s[i] \notin chars}
    IN  IF keep = {} THEN <<>> ELSE SubSeq(s, SetMin(keep), SetMax(keep))

\* str.strip()
strip(s) == strip_chars(s, Whitespace)

\* pat occurs somewhere in s
Contains(s, pat) == \E i \in 1..Len(s) : MatchAt(s, i, pat)

(***************************************************************************)
(* Literals of the script.                                                 *)
(***************************************************************************)
\* the grave accent, U+0060, written as a named symbol: the TLA+ lexer pairs that
\* character with a later apostrophe, so no string of the module can hold it
BT == "<backtick>"
FENCE == <<BT,BT,BT>>
FENCE_SQL == <<BT,BT,BT,"s","q","l">>
LETS_RUN == <<"L","e","t","'","s"," ","r","u","n">>
MARKER == <<"S","Q","L","Q","u","e","r","y",":">>
DOT_SCHEMA == <<".","s","c","h","e","m","a">>
DOT_TABLES == <<".","t","a","b","l","e","s">>
SEMI == <<";">>
\* lines 88 and 128: the patterns compiled with re.IGNORECASE
FENCE_RE == ignore_case(FENCE)
FENCE_SQL_RE == ignore_case(FENCE_SQL)
MARKER_RE == ignore_case(MARKER)
SCHEMA_SQL ==
    <<"S","E","L","E","C","T"," ","s","q","l"," ","F","R","O","M"," ",
      "s","q","l","i","t","e","_","m","a","s","t","e","r"," ",
      "W","H","E","R","E"," ","t","y","p","e","=","'","t","a","b","l","e","'",";">>
TABLES_SQL ==
    <<"S","E","L","E","C","T"," ","n","a","m","e"," ","F","R","O","M"," ",
      "s","q","l","i","t","e","_","m","a","s","t","e","r"," ",
      "W","H","E","R","E"," ","t","y","p","e","=","'","t","a","b","l","e","'",";">>
GREETING ==
    <<"H","e","l","l","o","!"," ","A","s","k"," ","m","e"," ",
      "a","n","y","t","h","i","n","g"," ","a","b","o","u","t"," ",
      "y","o","u","r"," ","d","a","t","a","b","a","s","e",".">>

(***************************************************************************)
(* clean_sql_query, lines 85-96.                                           *)
(***************************************************************************)
RECURSIVE re_sub_from(_, _)
\* re.sub of the fence pattern of line 88, flags=re.IGNORECASE, from index i on: at each
\* index the first alternative that matches is removed, else the character kept
re_sub_from(s, i) ==
    IF i > Len(s) THEN <<>>
    ELSE IF MatchAtI(s, i, FENCE_SQL_RE) THEN re_sub_from(s, i + Len(FENCE_SQL))
    ELSE IF MatchAtI(s, i, FENCE_RE) THEN re_sub_from(s, i + Len(FENCE))
    ELSE <<s[i]>> \o re_sub_from(s, i + 1)

RECURSIVE re_sub_first(_, _)
\* a substitution that stops after its first match (count=1)
re_sub_first(s, i) ==
    IF i > Len(s) THEN <<>>
    ELSE IF MatchAtI(s, i, FENCE_SQL_RE) THEN SubSeq(s, i + Len(FENCE_SQL), Len(s))
    ELSE IF MatchAtI(s, i, FENCE_RE) THEN SubSeq(s, i + Len(FENCE), Len(s))
    ELSE <<s[i]>> \o re_sub_first(s, i + 1)

\* line 88 with count=1
strip_fences_once(raw_sql) == re_sub_first(raw_sql, 1)

\* line 88
strip_fences(raw_sql) == re_sub_from(raw_sql, 1)

\* line 90: cleaned.split("Let's run")[0]
split_lets_run(cleaned) ==
    LET at == {i \in 1..Len(cleaned) : MatchAt(cleaned, i, LETS_RUN)}
    IN  IF at = {} THEN cleaned ELSE SubSeq(cleaned, 1, SetMin(at) - 1)

\* lines 92-95: cleaned.strip().strip(";"), then ";" appended unless it ends in one
final_step(cleaned) ==
    LET c == strip_chars(strip(cleaned), {";"})
    IN  IF ~endswith(c, SEMI) THEN c \o SEMI ELSE c

\* lines 85-96
clean_sql_query(raw_sql) == final_step(split_lets_run(strip_fences(raw_sql)))

(***************************************************************************)
(* Extraction and rewrite, lines 127-149.                                  *)
(***************************************************************************)
\* the indices where the marker of line 128 matches
marker_at(text) == {i \in 1..Len(text) : MatchAtI(text, i, MARKER_RE)}

\* line 128: re.search of the marker pattern, flags=re.IGNORECASE, finds a match
sql_match(text) == marker_at(text) # {}

\* line 128, group(1): after the leftmost marker the whitespace class takes all
\* whitespace (line breaks included), then the dot-star group runs to the end of
\* that line
group1(text) ==
    LET m == SetMin(marker_at(text)) + Len(MARKER)
        rest == {i \in m..Len(text) : text[i] \notin Whitespace}
        b == IF rest = {} THEN Len(text) + 1 ELSE SetMin(rest)
        nl == {i \in b..Len(text) : text[i] = "\n"}
        e == IF nl = {} THEN Len(text) ELSE SetMin(nl) - 1
    IN  SubSeq(text, b, e)

\* an extraction that falls back on the whole text when the marker is missing
extract_or_whole(text) ==
    IF sql_match(text) THEN <<strip(group1(text))>> ELSE <<strip(text)>>

\* lines 127-130: None without a match, else group(1).strip()
extract_sql_query(text) ==
    IF sql_match(text) THEN <<strip(group1(text))>> ELSE <<>>

\* lines 135, 139: "if sql_query:" is false for None and for the empty string
truthy(sql_query) == sql_query # <<>> /\ sql_query[1] # <<>>

\* lines 140-146: the meta-command rewrite, applied before the cleaning
rewrite_meta(sql_query) ==
    LET fixed_query == strip(sql_query)
    IN  IF startswith(fixed_query, DOT_SCHEMA) THEN SCHEMA_SQL
        ELSE IF startswith(fixed_query, DOT_TABLES) THEN TABLES_SQL
        ELSE fixed_query

\* a guard that also skips a statement the cleaning reduces to a lone semicolon
fixed_query_unless_blank(sql_query) ==
    IF truthy(sql_query) /\ clean_sql_query(rewrite_meta(sql_query[1])) # SEMI
    THEN <<clean_sql_query(rewrite_meta(sql_query[1]))>>
    ELSE <<>>

\* lines 139-149: the query handed to db.run, none when sql_query is falsy
fixed_query_of(sql_query) ==
    IF truthy(sql_query) THEN <<clean_sql_query(rewrite_meta(sql_query[1]))>>
    ELSE <<>>

(***************************************************************************)
(* Configuration, lines 16-68.                                             *)
(***************************************************************************)
LOCALDB == "USE_LOCALDB"
MYSQL == "USE_MYSQL"

\* what a sidebar text input can hold: nothing, or some text
FieldValues == {"", "v"}
KeyValues == {"", "gsk"}
MysqlFields == {"host", "user", "password", "db"}

\* lines 25-28 as first rendered, and the state of the fields while not rendered
no_mysql == [f \in MysqlFields |-> ""]

\* lines 43, 51: mysql_host and mysql_user and mysql_password and mysql_db
mysql_details(my) == \A f \in MysqlFields : my[f] # ""

\* lines 50-53: the stop before configure_db is called
connect_stops(uri, my, key) == uri = MYSQL /\ key # "" /\ ~mysql_details(my)

\* lines 42-45: the stop inside configure_db
configure_db_stops(uri, my) == uri = MYSQL /\ ~mysql_details(my)

\* lines 66-68 left out
api_key_never_missing(key) == FALSE

\* lines 66-68
api_key_missing(key) == key = ""

\* where the script run ends: at one of the three st.stop() calls, or at its end
stop_at(uri, my, key) ==
    IF connect_stops(uri, my, key) THEN "L53"
    ELSE IF configure_db_stops(uri, my) THEN "L45"
    ELSE IF api_key_missing(key) THEN "L68"
    ELSE "end"

(***************************************************************************)
(* The database boundary and the display of a result, lines 153-195.       *)
(***************************************************************************)
T_ROWS == <<"[","(","1",","," ","'","a","'",")",","," ",
            "(","2",","," ","'","b","'",")","]">>
T_RAGGED == <<"[","(","1",",",")",","," ","(","2",","," ","3",")","]">>
T_CUT == <<"[","(","1",","," ">>
LIST_PREFIX == <<"[","(">>

\* ast.literal_eval on the result texts of the model: the value, or none when it raises
literal_eval(text) ==
    CASE text = T_ROWS -> << <<<<"1","a">>, <<"2","b">>>> >>
      [] text = T_RAGGED -> << <<<<"1">>, <<"2","3">>>> >>
      [] OTHER -> <<>>

\* what db.run returns or does: raises, a list of rows, or a text
RunOutcomes ==
    {[kind |-> "raise", rows |-> <<>>, text |-> <<>>],
     [kind |-> "list", rows |-> <<>>, text |-> <<>>],
     [kind |-> "list", rows |-> <<<<"Krish","90">>, <<"John","100">>>>, text |-> <<>>],
     [kind |-> "str", rows |-> <<>>, text |-> <<>>],
     [kind |-> "str", rows |-> <<>>, text |-> T_ROWS],
     [kind |-> "str", rows |-> <<>>, text |-> T_RAGGED],
     [kind |-> "str", rows |-> <<>>, text |-> T_CUT]}

\* lines 170-173: the metadata probe raises (none) or yields the column names
ProbeOutcomes == {<<>>, <<<<"NAME","MARKS">>>>, <<<<"NAME">>>>}

\* line 174: col_1 .. col_N, N the width of the first row
synthetic_columns(data_list) == [i \in 1..Len(data_list[1]) |-> <<"col", i>>]

\* line 176: pandas refuses a column list whose length is not the rows' width
data_frame_raises(data_list, columns) ==
    Len(columns) # SetMax({Len(data_list[i]) : i \in 1..Len(data_list)})

\* lines 158-164: data_list; ok is false when literal_eval raised
data_list_of(query_result) ==
    IF query_result.kind = "list" THEN [ok |-> TRUE, value |-> <<query_result.rows>>]
    ELSE IF query_result.kind = "str" /\ startswith(query_result.text, LIST_PREFIX)
    THEN [ok |-> literal_eval(query_result.text) # <<>>,
          value |-> literal_eval(query_result.text)]
    ELSE [ok |-> TRUE, value |-> <<>>]

\* lines 169-174: the columns used when data_list is truthy
columns_of(data_list, probe) ==
    IF probe # <<>> THEN probe[1] ELSE synthetic_columns(data_list)

\* lines 190-191 writing the raw result instead of the warning
show_raw_on_failure(query_result, probe) ==
    LET d == data_list_of(query_result)
    IN  IF ~d.ok THEN "raw"
        ELSE IF d.value # <<>> /\ d.value[1] # <<>>
        THEN IF data_frame_raises(d.value[1], columns_of(d.value[1], probe))
             THEN "raw" ELSE "table"
        ELSE "raw"

\* lines 155-191: what col2 shows for a result db.run returned
display(query_result, probe) ==
    LET d == data_list_of(query_result)
    IN  IF ~d.ok THEN "warn_display"
        ELSE IF d.value # <<>> /\ d.value[1] # <<>>
        THEN IF data_frame_raises(d.value[1], columns_of(d.value[1], probe))
             THEN "warn_display" ELSE "table"
        ELSE "raw"

(***************************************************************************)
(* The chat part of the script, lines 99-201.                              *)
(***************************************************************************)
message(role, content) == [role |-> role, content |-> content]

\* line 100
seeded == [messages |-> <<message("assistant", GREETING)>>]

has_messages(ss) == "messages" \in DOMAIN ss

\* number of messages in st.session_state, 0 while the key is absent
count(ss) == IF has_messages(ss) THEN Len(ss.messages) ELSE 0

\* line 99 without the button
keep_on_button(ss, button) == IF has_messages(ss) THEN ss ELSE seeded

\* lines 99-100: the transcript is seeded when absent or when the button was pressed
init_or_clear(ss, button) == IF ~has_messages(ss) \/ button THEN seeded ELSE ss

\* line 99: "or" evaluates st.sidebar.button only when "messages" is present
button_rendered(ss) == has_messages(ss)

\* an assignment in place of the append
replace_with(ss, msg) == [messages |-> <<msg>>]

\* lines 111, 198: st.session_state.messages.append
append(ss, msg) == [messages |-> Append(ss.messages, msg)]

\* lines 197-198 placed inside the inner try: nothing saved when db.run raised
save_unless_run_failed(ss, text, shown) ==
    IF shown = "warn_exec" THEN ss ELSE append(ss, message("assistant", text))

\* lines 197-198: the reply is saved whatever lines 139-195 showed
save_assistant(ss, text, shown) == append(ss, message("assistant", text))

\* the observation record of a run that handled no query
idle ==
    [event |-> "load", stop |-> "end", before |-> 0, llm |-> FALSE,
     result |-> <<>>, sql_query |-> <<>>, ran |-> <<>>,
     query_result |-> <<>>, probe |-> <<>>, shown |-> "none"]

\* lines 110-201 for a submitted user_query.  env holds what the boundaries do in
\* this run: env.llm is the text agent.invoke returns (none: it raises), env.run
\* is what db.run does, env.probe what the metadata probe does.
turn(ss, user_query, env) ==
    LET ss1 == append(ss, message("user", user_query))
    IN  IF env.llm = <<>>
        THEN [ss |-> ss1,
              obs |-> [idle EXCEPT !.llm = TRUE, !.shown = "error"]]
        ELSE
          LET text == env.llm[1]
              sql_query == extract_sql_query(text)
              fixed_query == fixed_query_of(sql_query)
              raised == fixed_query # <<>> /\ env.run.kind = "raise"
              returned == fixed_query # <<>> /\ env.run.kind # "raise"
              d == data_list_of(env.run)
              probed == returned /\ d.ok /\ d.value # <<>> /\ d.value[1] # <<>>
              shown == IF fixed_query = <<>> THEN "none"
                       ELSE IF raised THEN "warn_exec"
                       ELSE display(env.run, env.probe)
          IN  [ss |-> save_assistant(ss1, text, shown),
               obs |-> [idle EXCEPT !.llm = TRUE,
                                    !.result = <<text>>,
                                    !.sql_query = sql_query,
                                    !.ran = fixed_query,
                                    !.query_result =
                                        IF returned THEN <<env.run>> ELSE <<>>,
                                    !.probe = IF probed THEN <<env.probe>> ELSE <<>>,
                                    !.shown = shown]]

\* One run of the script, lines 16-201, with the widget values uri, my, key,
\* the clear button pressed or not, and the chat input submitted (user_query
\* holds the text) or not: the session state it leaves, the main-flow widgets
\* it renders and what it did.
run_script(ss, event, uri, my, key, button, user_query, env) ==
    LET stop == stop_at(uri, my, key)
        base == [idle EXCEPT !.event = event, !.stop = stop, !.before = count(ss)]
        ss0 == init_or_clear(ss, button)
        shown_widgets == {"chat_input"} \cup
                         (IF button_rendered(ss) THEN {"button"} ELSE {})
        t == turn(ss0, user_query[1], env)
    IN  IF stop # "end"
        THEN [session_state |-> ss, widgets |-> {}, out |-> base]
        ELSE IF user_query = <<>>
        THEN [session_state |-> ss0, widgets |-> shown_widgets, out |-> base]
        ELSE [session_state |-> t.ss,
              widgets |-> shown_widgets \cup
                          (IF t.obs.shown = "table" THEN {"download"} ELSE {}),
              out |-> [t.obs EXCEPT !.event = event, !.stop = stop,
                                    !.before = count(ss)]]

\* an interaction: the widget values change and the script runs once
script(event, uri, my, key, button, user_query, env) ==
    \E r \in {run_script(session_state, event, uri, my, key, button,
                         user_query, env)} :
        /\ db_uri' = uri
        /\ mysql' = my
        /\ api_key' = key
        /\ session_state' = r.session_state
        /\ widgets' = r.widgets
        /\ out' = r.out

no_env == [llm |-> <<>>, run |-> [kind |-> "raise", rows |-> <<>>, text |-> <<>>],
           probe |-> <<>>]

(***************************************************************************)
(* The session: one action per interaction.                                *)
(***************************************************************************)
\* the first run of a new session: SQLite selected, no API key (stops at line 68)
Init ==
    /\ db_uri = LOCALDB
    /\ mysql = no_mysql
    /\ api_key = ""
    /\ session_state = [k \in {} |-> <<>>]
    /\ widgets = {}
    /\ out = [idle EXCEPT !.stop = "L68"]

\* line 21: the radio is switched; the MySQL inputs are rendered anew, or not at all
SelectDb ==
    \E uri \in {LOCALDB, MYSQL} :
        /\ uri # db_uri
        /\ script("edit", uri, no_mysql, api_key, FALSE, <<>>, no_env)

\* lines 25-28: one of the MySQL inputs is edited
EditMysql ==
    \E f \in MysqlFields, v \in FieldValues :
        /\ db_uri = MYSQL
        /\ v # mysql[f]
        /\ script("edit", db_uri, [mysql EXCEPT ![f] = v], api_key, FALSE, <<>>, no_env)

\* line 32: the API key input is edited
EditApiKey ==
    \E key \in KeyValues :
        /\ key # api_key
        /\ script("edit", db_uri, mysql, key, FALSE, <<>>, no_env)

\* line 99: the clear button, rendered by the last run, is pressed
ClearChat ==
    /\ "button" \in widgets
    /\ script("clear", db_uri, mysql, api_key, TRUE, <<>>, no_env)

\* line 181: the download button is pressed, which only re-runs the script
Download ==
    /\ "download" \in widgets
    /\ script("download", db_uri, mysql, api_key, FALSE, <<>>, no_env)

\* the LLM replies the session model draws from
marker_lower == <<"s","q","l","q","u","e","r","y",":">>
Chunk_SELECT == <<"S","E","L","E","C","T"," ","1">>
Responses ==
    {<<"n","o">>,
     MARKER,
     MARKER \o <<" ">> \o FENCE,
     marker_lower \o <<" ",";",";">>,
     MARKER \o <<" ">> \o Chunk_SELECT}

UserQueries == {<<"h","i">>}

\* lines 107-201: a question is submitted in the chat input the last run rendered
UserTurn ==
    /\ "chat_input" \in widgets
    /\ count(session_state) + 2 <= MaxMsgs
    /\ \E q \in UserQueries, llm \in {<<>>} \cup {<<text>> : text \in Responses},
       run \in RunOutcomes, probe \in ProbeOutcomes :
          script("query", db_uri, mysql, api_key, FALSE, <<q>>,
                 [llm |-> llm, run |-> run, probe |-> probe])

Next == SelectDb \/ EditMysql \/ EditApiKey \/ ClearChat \/ Download \/ UserTurn

Spec == Init /\ [][Next]_vars

(***************************************************************************)
(* The sanitizer on enumerated replies: one turn of a configured session,  *)
(* the reply drawn from every text made of a head and up to MaxChunks      *)
(* chunks.                                                                 *)
(***************************************************************************)
Heads ==
    {<<>>,
     MARKER,
     marker_lower \o <<" ">>,
     <<"x","\n">> \o MARKER \o <<"\n">>,
     MARKER \o <<" ","x","\n">>,
     MARKER \o <<" ">> \o DOT_TABLES,
     MARKER \o <<" ">> \o FENCE \o <<"S","q","l">>}

BodyChunks == {<<BT>>, FENCE, SEMI, <<" ">>, LETS_RUN, DOT_SCHEMA, <<"x">>}

RECURSIVE Bodies(_)
Bodies(n) ==
    IF n = 0 THEN {<<>>}
    ELSE LET shorter == Bodies(n - 1)
         IN  shorter \cup {c \o b : c \in BodyChunks, b \in shorter}

Inputs == {h \o b : h \in Heads, b \in Bodies(MaxChunks)}

SanRuns == {r \in RunOutcomes : r.kind = "raise"}

\* the session after the API key was entered: the transcript seeded, no turn yet
InitSan ==
    /\ db_uri = LOCALDB
    /\ mysql = no_mysql
    /\ api_key = "gsk"
    /\ session_state = seeded
    /\ widgets = {"chat_input"}
    /\ out = [idle EXCEPT !.event = "edit"]

\* lines 107-201: the first question of the session, answered by any of the replies
FirstTurn ==
    /\ "chat_input" \in widgets
    /\ count(session_state) = 1
    /\ \E q \in UserQueries, text \in Inputs, run \in SanRuns :
          script("query", db_uri, mysql, api_key, FALSE, <<q>>,
                  [llm |-> <<text>>, run |-> run, probe |-> <<>>])

NextSan == FirstTurn

SpecSan == InitSan /\ [][NextSan]_vars

(***************************************************************************)
(* Properties.                                                             *)
(***************************************************************************)
messages == session_state.messages

\* the last run handled a question and agent.invoke returned a reply
answered == out.event = "query" /\ out.result # <<>>

reply == out.result[1]

\* some text other than whitespace follows the first marker of the reply
followed_by_text(text) ==
    \E i \in (SetMin(marker_at(text)) + Len(MARKER))..Len(text) :
        text[i] \notin Whitespace

\* s without its trailing characters of the set
rstrip_chars(s, chars) ==
    LET keep == {i \in 1..Len(s) : s[i] \notin chars}
    IN  IF keep = {} THEN <<>> ELSE SubSeq(s, 1, SetMax(keep))

ends_in_one_semicolon(q) ==
    /\ Len(q) >= 1
    /\ q[Len(q)] = ";"
    /\ Len(q) >= 2 => q[Len(q) - 1] # ";"

IsPrefix(a, b) == Len(a) <= Len(b) /\ \A i \in 1..Len(a) : a[i] = b[i]

\* the last two messages are the question and the reply of the last run
turn_saved ==
    /\ count(session_state) = out.before + 2
    /\ messages[count(session_state) - 1].role = "user"
    /\ messages[count(session_state)] = message("assistant", reply)

\* C1: for every reply that holds the marker followed by a statement, the query
\* handed to db.run ends in exactly one semicolon and holds no code fence.
C1_OneSemicolonNoFence ==
    (answered /\ sql_match(reply) /\ followed_by_text(reply)) =>
        /\ out.ran # <<>>
        /\ ends_in_one_semicolon(out.ran[1])
        /\ ~Contains(out.ran[1], FENCE)

C1_Witness ==
    /\ answered
    /\ sql_match(reply)
    /\ Contains(reply, FENCE)
    /\ Contains(reply, <<";", ";">>)
    /\ out.ran # <<>>
    /\ Len(out.ran[1]) >= 2

\* C2: whenever the extracted statement, once fences are stripped, the text from
\* "Let's run" on is dropped and whitespace is trimmed, starts with .schema
\* (.tables), the query handed to db.run is the sqlite_master query for sql (name).
C2_MetaCommandRewritten ==
    (answered /\ truthy(out.sql_query)) =>
        LET c == strip(split_lets_run(strip_fences(out.sql_query[1])))
        IN  /\ startswith(c, DOT_SCHEMA) => out.ran = <<SCHEMA_SQL>>
            /\ startswith(c, DOT_TABLES) => out.ran = <<TABLES_SQL>>

\* C3 as claimed: a reply without the marker is sanitized whole and handed to
\* db.run in that turn.
C3_WholeTextRun ==
    (answered /\ ~sql_match(reply)) =>
        out.ran = <<clean_sql_query(rewrite_meta(reply))>>

\* C3 as amended: a reply without the marker yields no query; nothing is handed to
\* db.run and nothing is shown in the result column, and the reply is saved as the
\* assistant message of the turn.
C3_NoMarkerNoQuery ==
    (answered /\ ~sql_match(reply)) =>
        /\ out.sql_query = <<>>
        /\ out.ran = <<>>
        /\ out.query_result = <<>>
        /\ out.shown = "none"
        /\ turn_saved

C3_Witness ==
    /\ answered
    /\ ~sql_match(reply)
    /\ Contains(reply, DOT_SCHEMA)
    /\ out.ran = <<>>
    /\ count(session_state) = 3

\* C6 as claimed: whenever the marker is found in the reply, db.run is attempted.
C6_RunWheneverMarker ==
    (answered /\ sql_match(reply)) =>
        /\ out.ran # <<>>
        /\ out.shown # "none"

\* C6 as amended: when the marker is found, db.run is attempted exactly when some
\* text other than whitespace follows the marker, also when the sanitized query is
\* a lone semicolon; a marker followed by nothing or by whitespace runs nothing.
C6_RunIffStatement ==
    (answered /\ sql_match(reply)) =>
        (followed_by_text(reply) <=>
            (out.ran # <<>> /\ (out.shown = "warn_exec" \/ out.query_result # <<>>)))

C6_Witness ==
    /\ answered
    /\ Contains(reply, FENCE)
    /\ out.ran = <<SEMI>>
    /\ out.shown = "warn_exec"

\* C9: the cleaned query is the whitespace-trimmed candidate (fences stripped, cut
\* at "Let's run") without its trailing semicolons, followed by one semicolon;
\* leading semicolons are kept.
C9_OnlyTrailingStripped ==
    (answered /\ out.ran # <<>>) =>
        LET cand == split_lets_run(strip_fences(rewrite_meta(out.sql_query[1])))
        IN  out.ran[1] = rstrip_chars(strip(cand), {";"}) \o SEMI

\* C4: after any sequence of turns, the run a press of the clear button triggers
\* leaves exactly one message, the assistant's seeded greeting.
C4_ClearResets ==
    out.event = "clear" =>
        /\ has_messages(session_state)
        /\ Len(messages) = 1
        /\ messages[1].role = "assistant"
        /\ messages[1].content = GREETING

C4_Witness ==
    /\ out.event = "clear"
    /\ out.before >= 4
    /\ count(session_state) = 1

\* the result db.run returned begins with "[(" and cannot be parsed, or the table
\* cannot be built from the rows and the column names
normalization_failed ==
    /\ out.event = "query"
    /\ out.query_result # <<>>
    /\ LET r == out.query_result[1]
           d == data_list_of(r)
       IN  \/ /\ r.kind = "str"
              /\ startswith(r.text, LIST_PREFIX)
              /\ literal_eval(r.text) = <<>>
           \/ /\ d.ok
              /\ d.value # <<>>
              /\ d.value[1] # <<>>
              /\ out.probe # <<>>
              /\ data_frame_raises(d.value[1], columns_of(d.value[1], out.probe[1]))

\* C5 as claimed: when the result cannot be parsed or the table cannot be built,
\* the raw result is shown as opaque text, and the turn continues.
C5_RawOnFailure ==
    normalization_failed => (out.shown = "raw" /\ turn_saved)

\* C5 as amended: when the result cannot be parsed or the table cannot be built,
\* the failure is caught in the turn and a warning is shown in place of the table;
\* the raw result is not written; the turn continues and the reply is saved.
C5_WarningOnFailure ==
    normalization_failed =>
        /\ out.shown = "warn_display"
        /\ out.stop = "end"
        /\ turn_saved

C5_Witness ==
    /\ normalization_failed
    /\ out.query_result[1].text = T_CUT
    /\ out.shown = "warn_display"

\* C7: when db.run raises, the failure is caught in the turn and shown as a
\* warning; the reply is still saved after the question, the chat input is
\* rendered again, a further question can be submitted, and the turn that follows
\* invokes the LLM and appends to the transcript.
C7_RunFailureCaught ==
    /\ [](out.shown = "warn_exec" =>
            /\ out.ran # <<>>
            /\ out.stop = "end"
            /\ turn_saved
            /\ "chat_input" \in widgets
            /\ (count(session_state) + 2 <= MaxMsgs => ENABLED UserTurn))
    /\ [][(out.shown = "warn_exec" /\ out'.event = "query") =>
            /\ out'.llm
            /\ out'.stop = "end"
            /\ IsPrefix(messages, messages')
            /\ Len(messages') > Len(messages)]_vars

C7_Witness ==
    /\ out.shown = "warn_exec"
    /\ out.before = 3
    /\ turn_saved

\* the API key is empty, or MySQL is selected and one of its four fields is empty
config_invalid ==
    \/ api_key = ""
    \/ db_uri = MYSQL /\ \E f \in MysqlFields : mysql[f] = ""

\* C8: in every run with an invalid configuration the script stops before any LLM
\* invocation, any query execution and any change to the transcript, run after
\* run, whichever of the two conditions holds.
C8_HaltsWhileInvalid ==
    /\ [](config_invalid =>
            /\ out.stop # "end"
            /\ ~out.llm
            /\ out.ran = <<>>
            /\ out.before = count(session_state)
            /\ widgets = {})
    /\ [][config_invalid' => session_state' = session_state]_vars

C8_Witness ==
    /\ config_invalid
    /\ db_uri = MYSQL
    /\ api_key # ""
    /\ out.stop = "L53"
    /\ count(session_state) >= 3

\* C10: once initialised the transcript is never empty and starts with the seeded
\* greeting; a user turn only appends; only the clear replaces messages.
C10_AppendOnly ==
    /\ [](has_messages(session_state) =>
            /\ Len(messages) >= 1
            /\ messages[1] = message("assistant", GREETING))
    /\ [][has_messages(session_state) =>
            /\ has_messages(session_state')
            /\ out'.event # "clear" => IsPrefix(messages, messages')
            /\ out'.event = "query" => Len(messages') > Len(messages)]_vars

C10_Witness ==
    /\ out.event = "query"
    /\ out.shown = "error"
    /\ count(session_state) = 4

=============================================================================
